---- MODULE Spec2Model ----
(***************************************************************************)
(* Model of epowcore/pandapower/pandapower_model.py: the PandapowerModel   *)
(* session (network, platform) and its per-type converters.                *)
(*                                                                         *)
(* Python values are records [kind, uid]: kind is the class of the value   *)
(* ("Bus", "TLine", ..., "int" for a plain uid, "None" for None); a list   *)
(* is a sequence of such records.  The pandapower network is the set of    *)
(* its rows, one record per created element.                               *)
(*                                                                         *)
(* The topology resolver (get_connected_bus, CoreModel.get_neighbors) and  *)
(* pandapower are outside the module: the resolver's results are inputs of *)
(* each call, and pandapower's create functions store the row they are     *)
(* given; whether they reject a bus that is not in the network is left     *)
(* open (validates).                                                       *)
(***************************************************************************)
EXTENDS Integers, Sequences, FiniteSets, TLC

\* ---------------------------------------------------------------- bounds
MaxCalls == 2
MaxNeighbours == 3
MaxPower == 1

\* ------------------------------------------------------- the generic model
BusUids == {1, 2}
KindOf(u) ==
    CASE u \in BusUids -> "Bus"
      [] u = 3 -> "Load"
      [] u = 4 -> "TwoWindingTransformer"
      [] u = 5 -> "ThreeWindingTransformer"
      [] u = 6 -> "SynchronousMachine"
      [] u = 7 -> "TLine"
      [] u = 8 -> "Ward"
      [] u = 9 -> "Shunt"
      [] OTHER -> "Switch"
Uids == 1..10
Comp(u) == [kind |-> KindOf(u), uid |-> u]
Components == {Comp(u) : u \in Uids}
Buses == {Comp(u) : u \in BusUids}
OfKind(k) == {c \in Components : c.kind = k}

BusType == {"BUSBAR", "JUNCTION", "INTERNAL"}
Platforms == {"PANDAPOWER"}
\* lf_bus_type of the buses of the generic model
LFBusTypeOf(u) == IF u = 1 THEN "SLACK" ELSE "PQ"

None == [kind |-> "None", uid |-> 0]
PyInt(u) == [kind |-> "int", uid |-> u]

\* results of the topology resolver
\* get_connected_bus(graph, component, max_depth=1): a Bus or None
ConnectedBusResults == Buses \cup {None}
\* get_neighbors(component, follow_links=True, connector=c): a list of buses
ConnectorResults == {<<>>} \cup {<<b>> : b \in Buses}
\* get_neighbors(component, follow_links=True, connector=None): a list of
\* distinct neighbouring components
NeighbourPool == {Comp(1), Comp(2), Comp(3), Comp(4), Comp(5), Comp(7)}
RECURSIVE ListsOver(_, _)
ListsOver(S, n) ==
    IF n = 0 THEN {<<>>}
    ELSE LET shorter == ListsOver(S, n - 1)
         IN  shorter \cup
             {Append(l, x) : l \in {s \in shorter : Len(s) = n - 1}, x \in S}
Distinct(l) == \A i, j \in 1..Len(l) : i # j => l[i] # l[j]
NeighbourResults == {l \in ListsOver(NeighbourPool, MaxNeighbours) : Distinct(l)}

\* power attributes of a Ward <<p_gen, p_load, q_gen, q_load, p_zload, q_zload>>
\* and of a Shunt <<p, q>>
PowerValues == 0..MaxPower
WardInputs ==
    {<<pg, pl, qg, ql, pz, qz>> :
        pg \in PowerValues, pl \in PowerValues, qg \in PowerValues,
        ql \in PowerValues, pz \in PowerValues, qz \in PowerValues}
WardSamples == {<<2, 1, 0, 3, 4, 5>>, <<0, 0, 1, 0, 0, 0>>}
ShuntSamples == {<<1, 2>>, <<0, 0>>}

VARIABLES
    network,        \* PandapowerModel.network: the rows created so far
    platform,       \* PandapowerModel.platform
    Bus_bus_type,   \* the class attribute Bus.bus_type (the dataclass default)
    validates,      \* whether pandapower's create_* reject an unknown bus
    done,           \* uids of the components already handed to a converter
    before,         \* network before the last converter call
    lastCall        \* the last converter call: its inputs and its outcome

vars == <<network, platform, Bus_bus_type, validates, done, before, lastCall>>

\* ------------------------------------------------------------- pandapower
UidRef(u) == [kind |-> "int", uid |-> u]
Row(table, index, refs, type, attrs) ==
    [table |-> table, index |-> index, refs |-> refs, type |-> type,
     attrs |-> attrs]
HasBus(net, ref) ==
    ref.kind = "int" /\ \E r \in net : r.table = "bus" /\ r.index = ref.uid
HasRow(net, table, index) ==
    \E r \in net : r.table = table /\ r.index = index

\* pandapower.create_<table>(net, index=..., bus=..., ...): the row is stored
\* under its index; a validating library raises UserWarning for a bus that is
\* not in net.bus or an index that is taken.
pandapower_create(net, row, ok) ==
    IF validates /\ (HasRow(net, row.table, row.index)
                     \/ \E i \in 1..Len(row.refs) : ~HasBus(net, row.refs[i]))
    THEN [result |-> "UserWarning", net |-> net]
    ELSE [result |-> ok,
          net |-> {r \in net : ~(r.table = row.table /\ r.index = row.index)}
                  \cup {row}]

Raise(exc, net) == [result |-> exc, net |-> net]
Return(val, net) == [result |-> val, net |-> net]

\* ------------------------------------------------------------- converters
\* mutant: the bus is stored under a fixed index instead of its uid
create_bus_from_gdf_wrong_index(net, bus) ==
    pandapower_create(net,
        Row("bus", 0, <<>>, IF Bus_bus_type = "JUNCTION" THEN "n" ELSE "b", <<>>),
        "None")

create_bus_from_gdf(net, bus) ==
    LET pandapower_type == IF Bus_bus_type = "JUNCTION" THEN "n" ELSE "b"
    IN  pandapower_create(net,
            Row("bus", bus.uid, <<>>, pandapower_type, <<>>), "None")

create_load_from_gdf(net, load, load_bus) ==
    IF load_bus.kind = "None" THEN Return("False", net)
    ELSE pandapower_create(net,
            Row("load", load.uid, <<UidRef(load_bus.uid)>>, "wye", <<>>), "True")

\* x.uid on a Python value: components have a uid; a list, an int and None
\* have none (AttributeError).
HasAttr(v) == v.kind \notin {"list", "int", "None"}
PyList == [kind |-> "list", uid |-> 0]

create_two_winding_transformer_from_gdf(net, transformer, hv, lv) ==
    IF Len(hv) = 0 \/ Len(lv) = 0 THEN Raise("IndexError", net)
    ELSE LET high_voltage_bus == hv[1]
             low_voltage_bus == lv[1]
         IN  IF high_voltage_bus.kind = "None" \/ low_voltage_bus.kind = "None"
             THEN Return("False", net)
             ELSE pandapower_create(net,
                     Row("trafo", transformer.uid,
                         <<UidRef(high_voltage_bus.uid),
                           UidRef(low_voltage_bus.uid)>>, "hv", <<>>), "True")

create_three_winding_transformer_from_gdf(net, transformer3w, hv, mv, lv) ==
    IF Len(hv) = 0 \/ Len(lv) = 0 THEN Raise("IndexError", net)
    ELSE LET high_voltage_bus == hv[1]
             middle_voltage_bus == PyList    \* the list itself, not mv[0]
             low_voltage_bus == lv[1]
         IN  IF \/ high_voltage_bus.kind = "None"
                \/ low_voltage_bus.kind = "None"
                \/ middle_voltage_bus.kind = "None"
             THEN Return("False", net)
             ELSE IF ~HasAttr(middle_voltage_bus)
                  THEN Raise("AttributeError", net)
                  ELSE pandapower_create(net,
                          Row("trafo3w", transformer3w.uid,
                              <<UidRef(high_voltage_bus.uid),
                                UidRef(middle_voltage_bus.uid),
                                UidRef(low_voltage_bus.uid)>>, "hv", <<>>),
                          "True")

create_generator_from_gdf_synchronous_maschine(net, machine, machine_bus) ==
    IF machine_bus.kind = "None" THEN Return("False", net)
    ELSE LET slack == IF LFBusTypeOf(machine_bus.uid) = "SLACK" THEN 1 ELSE 0
         IN  pandapower_create(net,
                 Row("gen", machine.uid, <<UidRef(machine_bus.uid)>>, "sync",
                     <<slack>>), "True")

create_line_from_gdf_tline(net, tline, a, b) ==
    IF Len(a) = 0 \/ Len(b) = 0 THEN Raise("IndexError", net)
    ELSE LET from_bus == a[1]
             to_bus == b[1]
         IN  IF from_bus.kind = "None" \/ to_bus.kind = "None"
             THEN Return("False", net)
             ELSE pandapower_create(net,
                     Row("line", tline.uid,
                         <<UidRef(from_bus.uid), UidRef(to_bus.uid)>>, "", <<>>),
                     "True")

\* mutant: the injection is computed as generation minus load
create_ward_from_gdf_ward_gen_minus_load(net, uid, ward, ward_bus) ==
    IF ward_bus.kind = "None" THEN Return("False", net)
    ELSE pandapower_create(net,
            Row("ward", uid, <<ward_bus>>, "",
                <<ward[1] - ward[2], ward[3] - ward[4], ward[5], ward[6]>>),
            "True")

\* ward == <<p_gen, p_load, q_gen, q_load, p_zload, q_zload>>
create_ward_from_gdf_ward(net, uid, ward, ward_bus) ==
    IF ward_bus.kind = "None" THEN Return("False", net)
    ELSE pandapower_create(net,
            Row("ward", uid, <<ward_bus>>, "",
                <<(-ward[1]) + ward[2], (-ward[3]) + ward[4], ward[5], ward[6]>>),
            "True")

\* mutant: the missing bus is not checked
create_shunt_from_gdf_shunt_unchecked(net, uid, shunt, shunt_bus) ==
    pandapower_create(net,
        Row("shunt", uid, <<shunt_bus>>, "", <<shunt[1], shunt[2]>>), "True")

\* shunt == <<p, q>>
create_shunt_from_gdf_shunt(net, uid, shunt, shunt_bus) ==
    IF shunt_bus.kind = "None" THEN Return("False", net)
    ELSE pandapower_create(net,
            Row("shunt", uid, <<shunt_bus>>, "", <<shunt[1], shunt[2]>>), "True")

_create_pandapower_switch_et(component) ==
    CASE component.kind = "Bus" -> "b"
      [] component.kind = "TLine" -> "I"
      [] component.kind = "TwoWindingTransformer" -> "t"
      [] component.kind = "ThreeWindingTransformer" -> "t3"
      [] OTHER -> "False"

\* mutant: only fewer than two neighbours are rejected
create_switch_from_gdf_switch_at_least_two(net, switch, neighbours) ==
    IF Len(neighbours) < 2
    THEN [result |-> "False", net |-> net, classified |-> FALSE]
    ELSE LET busFirst == neighbours[1].kind = "Bus"
             switch_other_component ==
                 PyInt(IF busFirst THEN neighbours[2].uid ELSE neighbours[1].uid)
             switch_et == _create_pandapower_switch_et(switch_other_component)
         IN  [result |-> IF switch_et = "False" THEN "False" ELSE "AttributeError",
              net |-> net, classified |-> TRUE]

\* the outcome also tells whether the classification was reached
create_switch_from_gdf_switch(net, switch, neighbours) ==
    IF Len(neighbours) # 2
    THEN [result |-> "False", net |-> net, classified |-> FALSE]
    ELSE LET busFirst == neighbours[1].kind = "Bus"
             switch_bus ==
                 PyInt(IF busFirst THEN neighbours[1].uid ELSE neighbours[2].uid)
             switch_other_component ==
                 PyInt(IF busFirst THEN neighbours[2].uid ELSE neighbours[1].uid)
             switch_et == _create_pandapower_switch_et(switch_other_component)
             out ==
                 IF switch_et = "False" THEN Return("False", net)
                 ELSE IF ~HasAttr(switch_bus)   \* switch_bus.nominal_voltage
                      THEN Raise("AttributeError", net)
                      ELSE pandapower_create(net,
                              Row("switch", switch.uid, <<switch_bus>>,
                                  switch_et, <<switch_other_component.uid>>),
                              "True")
         IN  [result |-> out.result, net |-> out.net, classified |-> TRUE]

\* ---------------------------------------------------------------- session
NoCall ==
    [op |-> "none", uid |-> 0, result |-> "None", classified |-> FALSE,
     bus |-> None, found |-> <<>>, neighbours |-> <<>>, bus_type |-> "",
     power |-> <<>>]

Init ==
    /\ network = {}
    /\ platform \in Platforms
    /\ Bus_bus_type \in BusType
    /\ validates \in BOOLEAN
    /\ done = {}
    /\ before = {}
    /\ lastCall = NoCall

\* The orchestrating loop hands each component of the generic model to its
\* converter once, in any order; a session makes at most MaxCalls calls.
MayCall == Cardinality(done) < MaxCalls

\* one converter call on a component not yet handled
Step(c, out, call) ==
    /\ c.uid \notin done
    /\ before' = network
    /\ network' = out.net
    /\ done' = done \cup {c.uid}
    /\ lastCall' = [call EXCEPT !.uid = c.uid, !.result = out.result]
    /\ UNCHANGED <<platform, Bus_bus_type, validates>>

ConvertBus ==
    /\ MayCall
    /\ \E bus \in OfKind("Bus"), bus_type \in BusType :
           Step(bus, create_bus_from_gdf(network, bus),
                [NoCall EXCEPT !.op = "bus", !.bus_type = bus_type])

ConvertLoad ==
    /\ MayCall
    /\ \E load \in OfKind("Load"), load_bus \in ConnectedBusResults :
           Step(load, create_load_from_gdf(network, load, load_bus),
                [NoCall EXCEPT !.op = "load", !.bus = load_bus])

ConvertTwoWindingTransformer ==
    /\ MayCall
    /\ \E transformer \in OfKind("TwoWindingTransformer"),
          hv \in ConnectorResults, lv \in ConnectorResults :
           Step(transformer,
                create_two_winding_transformer_from_gdf(network, transformer, hv, lv),
                [NoCall EXCEPT !.op = "trafo", !.found = <<hv, lv>>])

ConvertThreeWindingTransformer ==
    /\ MayCall
    /\ \E transformer3w \in OfKind("ThreeWindingTransformer"),
          hv \in ConnectorResults, mv \in ConnectorResults,
          lv \in ConnectorResults :
           Step(transformer3w,
                create_three_winding_transformer_from_gdf(network, transformer3w,
                                                          hv, mv, lv),
                [NoCall EXCEPT !.op = "trafo3w", !.found = <<hv, mv, lv>>])

ConvertSynchronousMachine ==
    /\ MayCall
    /\ \E sm \in OfKind("SynchronousMachine"), sm_bus \in ConnectedBusResults :
           Step(sm, create_generator_from_gdf_synchronous_maschine(network, sm, sm_bus),
                [NoCall EXCEPT !.op = "gen", !.bus = sm_bus])

ConvertTLine ==
    /\ MayCall
    /\ \E tline \in OfKind("TLine"),
          a \in ConnectorResults, b \in ConnectorResults :
           Step(tline, create_line_from_gdf_tline(network, tline, a, b),
                [NoCall EXCEPT !.op = "line", !.found = <<a, b>>])

ConvertWardFrom(wards) ==
    /\ MayCall
    /\ \E w \in OfKind("Ward"), ward_bus \in ConnectedBusResults, ward \in wards :
           Step(w, create_ward_from_gdf_ward(network, w.uid, ward, ward_bus),
                [NoCall EXCEPT !.op = "ward", !.bus = ward_bus, !.power = ward])

ConvertShunt ==
    /\ MayCall
    /\ \E s \in OfKind("Shunt"), shunt_bus \in ConnectedBusResults,
          shunt \in ShuntSamples :
           Step(s, create_shunt_from_gdf_shunt(network, s.uid, shunt, shunt_bus),
                [NoCall EXCEPT !.op = "shunt", !.bus = shunt_bus, !.power = shunt])

ConvertWard == ConvertWardFrom(WardSamples)
ConvertWardAny == ConvertWardFrom(WardInputs)

ConvertSwitch ==
    /\ MayCall
    /\ \E switch \in OfKind("Switch"), neighbours \in NeighbourResults :
           LET out == create_switch_from_gdf_switch(network, switch, neighbours)
           IN  Step(switch, out,
                    [NoCall EXCEPT !.op = "switch", !.neighbours = neighbours,
                                   !.classified = out.classified])

Next ==
    \/ ConvertBus
    \/ ConvertLoad
    \/ ConvertTwoWindingTransformer
    \/ ConvertThreeWindingTransformer
    \/ ConvertSynchronousMachine
    \/ ConvertTLine
    \/ ConvertWard
    \/ ConvertShunt
    \/ ConvertSwitch

Spec == Init /\ [][Next]_vars

\* the ward converter over all bounded power attributes, with the bus
\* converter to provide the buses it attaches to
NextPower ==
    \/ ConvertBus
    \/ ConvertWardAny

SpecPower == Init /\ [][NextPower]_vars

\* ------------------------------------------------------------ properties
Called(op) == lastCall.op = op
Unchanged == network = before
\* the last call added exactly one row, in the given table under the uid of the
\* converted component, and left every other row alone
AddedOne(table) ==
    /\ before \subseteq network
    /\ Cardinality(network) = Cardinality(before) + 1
    /\ \A r \in network \ before : r.table = table /\ r.index = lastCall.uid
TheRow(table) == CHOOSE r \in network : r.table = table /\ r.index = lastCall.uid
Raised == lastCall.result \in {"IndexError", "AttributeError", "UserWarning"}

C2_NoBusFails ==
    (lastCall.op \in {"load", "gen", "ward", "shunt"} /\ lastCall.bus = None)
        => lastCall.result = "False" /\ Unchanged
C2_Witness ==
    /\ Called("shunt") /\ lastCall.bus = None
    /\ lastCall.result = "False" /\ network # {} /\ Unchanged

\* C3: every non-bus row references only uids of buses that are in the network,
\* and a converter whose resolved bus is not yet in the network returns False
\* and leaves the network unchanged.
ResolvedBuses ==
    IF lastCall.op \in {"load", "gen", "ward", "shunt"}
    THEN {lastCall.bus} \ {None}
    ELSE {lastCall.found[i][1] :
             i \in {j \in 1..Len(lastCall.found) : lastCall.found[j] # <<>>}}
C3_BusesFirst ==
    /\ \A r \in network : \A i \in 1..Len(r.refs) :
           r.table # "bus" =>
               \E b \in network : b.table = "bus" /\ b.index = r.refs[i].uid
    /\ (\E b \in ResolvedBuses : ~HasRow(before, "bus", b.uid))
           => lastCall.result = "False" /\ Unchanged

\* C4: a Switch with exactly two neighbours, a Bus and a TLine (or a two- or
\* three-winding transformer), converts: one switch row keyed by its uid whose
\* element type is the code of the other neighbour's type.
ExpectedEt(kind) ==
    CASE kind = "TLine" -> "l"
      [] kind = "TwoWindingTransformer" -> "t"
      [] OTHER -> "t3"
BusAndElement(n) ==
    /\ Len(n) = 2
    /\ \E i \in 1..2 :
           /\ n[i].kind = "Bus"
           /\ n[3 - i].kind \in
                  {"TLine", "TwoWindingTransformer", "ThreeWindingTransformer"}
OtherOf(n) == IF n[1].kind = "Bus" THEN n[2] ELSE n[1]
C4_SwitchConverts ==
    (Called("switch") /\ BusAndElement(lastCall.neighbours))
        => /\ lastCall.result = "True"
           /\ AddedOne("switch")
           /\ TheRow("switch").type = ExpectedEt(OtherOf(lastCall.neighbours).kind)

\* C5: a Switch whose neighbour lookup returns a number of components other
\* than two returns False before the classification is attempted, with the
\* network unchanged.
C5_NeighbourCountMismatch ==
    (Called("switch") /\ Len(lastCall.neighbours) # 2)
        => lastCall.result = "False" /\ ~lastCall.classified /\ Unchanged
C5_Witness ==
    /\ Called("switch") /\ Len(lastCall.neighbours) = 3
    /\ lastCall.result = "False" /\ ~lastCall.classified
    /\ network # {} /\ Unchanged

\* C6: every converter call runs to completion and either reports success
\* having added exactly one row keyed by the component's uid, or returns False
\* having added none; the rows already there and the platform are unchanged.
TableOf(op) == op
C6_AllOrNothing ==
    lastCall.op # "none" =>
        /\ ~Raised
        /\ \/ lastCall.result \in {"True", "None"} /\ AddedOne(TableOf(lastCall.op))
           \/ lastCall.result = "False" /\ Unchanged
        /\ platform \in Platforms

\* C7: the two-winding transformer converter returns False and creates nothing
\* when the "HV" or "LV" lookup is empty, and the line converter when the "A"
\* or "B" lookup is empty.
C7_UnresolvedSideFails ==
    (lastCall.op \in {"trafo", "line"}
     /\ \E i \in 1..2 : lastCall.found[i] = <<>>)
        => lastCall.result = "False" /\ Unchanged

\* C8: the three-winding transformer converter fails, creating nothing, exactly
\* when one of the "HV", "MV", "LV" lookups is empty; otherwise it returns True
\* and adds one trafo3w row keyed by its uid referencing the three buses.
C8_ThreeWinding ==
    Called("trafo3w") =>
        IF \E i \in 1..3 : lastCall.found[i] = <<>>
        THEN lastCall.result = "False" /\ Unchanged
        ELSE /\ lastCall.result = "True"
             /\ AddedOne("trafo3w")
             /\ TheRow("trafo3w").refs =
                    <<UidRef(lastCall.found[1][1].uid),
                      UidRef(lastCall.found[2][1].uid),
                      UidRef(lastCall.found[3][1].uid)>>

\* C9: the type of the created bus row follows the bus_type of the converted
\* Bus: "n" for a junction node, "b" for a busbar or an internal node.
C9_BusTypeOfInstance ==
    (Called("bus") /\ lastCall.result = "None")
        => TheRow("bus").type =
               (IF lastCall.bus_type = "JUNCTION" THEN "n" ELSE "b")

\* C10 as stated: the created ward row has ps_mw = p_gen - p_load and
\* qs_mvar = q_gen - q_load, pz_mw = p_zload and qz_mvar = q_zload.
WardCreated == Called("ward") /\ lastCall.bus # None /\ lastCall.result = "True"
C10_GenMinusLoad ==
    WardCreated =>
        TheRow("ward").attrs =
            <<lastCall.power[1] - lastCall.power[2],
              lastCall.power[3] - lastCall.power[4],
              lastCall.power[5], lastCall.power[6]>>

\* C10 amended: the created ward row has ps_mw = p_load - p_gen and
\* qs_mvar = q_load - q_gen, pz_mw = p_zload and qz_mvar = q_zload.
C10_LoadMinusGen ==
    WardCreated =>
        /\ AddedOne("ward")
        /\ TheRow("ward").attrs =
               <<lastCall.power[2] - lastCall.power[1],
                 lastCall.power[4] - lastCall.power[3],
                 lastCall.power[5], lastCall.power[6]>>
C10_Witness ==
    /\ WardCreated
    /\ lastCall.power[1] # lastCall.power[2]
    /\ lastCall.power[3] # lastCall.power[4]
    /\ TheRow("ward").attrs[1] = lastCall.power[2] - lastCall.power[1]

====
